---- MODULE Spec2Model ----
(***************************************************************************)
(* Model of the LDID library (package id): construction of a 128-bit       *)
(* identifier from a Generator, its accessors, its canonical string form   *)
(* and the default generator's random-bit draw.                            *)
(*                                                                         *)
(* Numbers wider than TLC's integers are bit sequences, most significant   *)
(* bit first: a uint64 is a sequence of 64 bits, a big.Int a sequence      *)
(* without leading zero bits.  A string is a sequence of one-character     *)
(* strings.                                                                *)
(***************************************************************************)
EXTENDS Integers, Sequences, FiniteSets

VARIABLES pc, gen, calls, id, err, str, parsed, perr, n, max, reads, readFailed, cand, r

vars == <<pc, gen, calls, id, err, str, parsed, perr, n, max, reads, readFailed, cand, r>>

\* ------------------------------------------------------------------ layout

timestampSize == 48
timestampOffset == 0
versionSize == 4
versionOffset == 48
randASize == 12
randAOffset == 52
variantSize == 2
variantOffset == 64
randBSize == 62
randBOffset == 66

\* ------------------------------------------------------------------ bits

Ones(k) == [i \in 1..k |-> 1]

Zeros(k) == [i \in 1..k |-> 0]

\* The uint64 whose only set bit is bit p, bit 0 being the least significant.
U64Bit(p) == [i \in 1..64 |-> IF i = 64 - p THEN 1 ELSE 0]

\* uint64(v) for a small integer v: the constants 0b0111 and 0b10.
U64Of(v) == [i \in 1..64 |-> IF i > 56 THEN (v \div (2 ^ (64 - i))) % 2 ELSE 0]

\* The value of a sequence of at most 8 bits.
RECURSIVE BitsValue(_)
BitsValue(bits) ==
    IF bits = <<>> THEN 0
    ELSE 2 * BitsValue(SubSeq(bits, 1, Len(bits) - 1)) + bits[Len(bits)]

\* The 8 bits of a byte value, most significant first.
ByteBits(b) == [i \in 1..8 |-> (b \div (2 ^ (8 - i))) % 2]

RECURSIVE BytesToBits(_)
BytesToBits(bytes) ==
    IF bytes = <<>> THEN <<>>
    ELSE ByteBits(Head(bytes)) \o BytesToBits(Tail(bytes))

BitsToBytes(bits) ==
    [k \in 1..(Len(bits) \div 8) |-> BitsValue(SubSeq(bits, 8 * k - 7, 8 * k))]

\* ------------------------------------------------------------------ bitfield

NoError == "nil"

\* bitfield.BigEndian.New(size): a zeroed container of size bits.
BitFieldNew(size) ==
    [data |-> Zeros(8 * ((size + 7) \div 8)), size |-> size, err |-> NoError]

\* What the container of a failed FromBytes may hold: every byte it was
\* given, the bytes of its declared width, or nothing.  The container's
\* contract says only that the call fails.
FailedContents == {"all", "declared", "none"}

\* bitfield.BigEndian.FromBytes(bytes, size): wraps the bytes as a container
\* whose declared width is size bits.  It fails, with the error kept in the
\* container, when the byte length is not the declared width rounded to
\* bytes; held is what the failed container then holds.
FromBytes(bytes, size, held) ==
    IF Len(bytes) = (size + 7) \div 8
    THEN [data |-> BytesToBits(bytes), size |-> size, err |-> NoError]
    ELSE LET declared == IF (size + 7) \div 8 < Len(bytes)
                         THEN (size + 7) \div 8 ELSE Len(bytes)
             kept     == CASE held = "all" -> Len(bytes)
                           [] held = "declared" -> declared
                           [] OTHER -> 0
         IN  [data |-> BytesToBits(SubSeq(bytes, 1, kept)),
              size |-> size,
              err  |-> "size mismatch"]

\* bf.InsertUint64(offset, size, value): the low size bits of value go to bit
\* positions [offset, offset+size), bit 0 being the most significant bit of
\* the first byte; the higher bits of value are dropped.
InsertUint64(bf, offset, size, value) ==
    IF bf.err # NoError THEN bf
    ELSE IF size < 1 \/ size > 64 \/ offset + size > bf.size
         THEN [bf EXCEPT !.err = "out of range"]
         ELSE [bf EXCEPT !.data =
                 [i \in 1..Len(bf.data) |->
                    IF i > offset /\ i <= offset + size
                    THEN value[64 - size + (i - offset)]
                    ELSE bf.data[i]]]

\* bf.ExtractUint64(offset, size): the bits [offset, offset+size) right
\* aligned in a uint64, or an error.
ExtractUint64(bf, offset, size) ==
    IF bf.err # NoError THEN [val |-> Zeros(64), err |-> bf.err]
    ELSE IF size < 1 \/ size > 64 \/ offset + size > bf.size
         THEN [val |-> Zeros(64), err |-> "out of range"]
         ELSE [val |-> Zeros(64 - size) \o SubSeq(bf.data, offset + 1, offset + size),
               err |-> NoError]

\* bf.Bytes(): the raw bytes the container holds.
BitFieldBytes(bf) == BitsToBytes(bf.data)

\* bf.Error(): the first error of an insertion.
BitFieldError(bf) == bf.err

\* ------------------------------------------------------------------ LDID

\* The nil *bitfield.BitField: no bits, and no use of it succeeds.
NilBitField == [data |-> <<>>, size |-> 0, err |-> "nil bitfield"]

\* &LDID{}: the value returned beside an error.
EmptyLDID == [bf |-> NilBitField]

\* InsertFields with the two random values written to each other's field.
InsertFieldsSwapped(bf, timestamp, version, randA, variant, randB) ==
    InsertUint64(
      InsertUint64(
        InsertUint64(
          InsertUint64(
            InsertUint64(bf, timestampOffset, timestampSize, timestamp),
            versionOffset, versionSize, version),
          randAOffset, randASize, randB),
        variantOffset, variantSize, variant),
      randBOffset, randBSize, randA)

\* InsertFields with the second random value written as a whole 64-bit word
\* over the second half of the container.
InsertFieldsOverlap(bf, timestamp, version, randA, variant, randB) ==
    InsertUint64(
      InsertUint64(
        InsertUint64(
          InsertUint64(
            InsertUint64(bf, timestampOffset, timestampSize, timestamp),
            versionOffset, versionSize, version),
          randAOffset, randASize, randA),
        variantOffset, variantSize, variant),
      variantOffset, 64, randB)

\* The five insertions of NewWithGenerator, in the code's order.
InsertFields(bf, timestamp, version, randA, variant, randB) ==
    InsertUint64(
      InsertUint64(
        InsertUint64(
          InsertUint64(
            InsertUint64(bf, timestampOffset, timestampSize, timestamp),
            versionOffset, versionSize, version),
          randAOffset, randASize, randA),
        variantOffset, variantSize, variant),
      randBOffset, randBSize, randB)

\* NewWithGenerator handing back the container under construction when the
\* 62-bit draw fails.
NewWithGeneratorPartial(g) ==
    LET a  == g.rand[randASize]
        b  == g.rand[randBSize]
        bf == InsertUint64(
                InsertUint64(
                  InsertUint64(BitFieldNew(128), timestampOffset, timestampSize, g.ts),
                  versionOffset, versionSize, U64Of(7)),
                randAOffset, randASize, a.val)
    IN  IF a.err # NoError
        THEN [id |-> EmptyLDID, err |-> a.err,
              calls |-> <<"GenerateUnixTimestampMS", "GenerateRandomBits(12)">>]
        ELSE IF b.err # NoError
        THEN [id |-> [bf |-> bf], err |-> b.err,
              calls |-> <<"GenerateUnixTimestampMS", "GenerateRandomBits(12)",
                          "GenerateRandomBits(62)">>]
        ELSE [id |-> [bf |-> InsertUint64(
                               InsertUint64(bf, variantOffset, variantSize, U64Of(2)),
                               randBOffset, randBSize, b.val)],
              err |-> NoError,
              calls |-> <<"GenerateUnixTimestampMS", "GenerateRandomBits(12)",
                          "GenerateRandomBits(62)">>]

\* NewWithGenerator making both random draws before it looks at the error
\* of the first.
NewWithGeneratorBothDraws(g) ==
    LET a  == g.rand[randASize]
        b  == g.rand[randBSize]
        bf == InsertFields(BitFieldNew(128), g.ts, U64Of(7), a.val, U64Of(2), b.val)
        made == <<"GenerateUnixTimestampMS", "GenerateRandomBits(12)",
                  "GenerateRandomBits(62)">>
    IN  IF a.err # NoError THEN [id |-> EmptyLDID, err |-> a.err, calls |-> made]
        ELSE IF b.err # NoError THEN [id |-> EmptyLDID, err |-> b.err, calls |-> made]
        ELSE IF BitFieldError(bf) # NoError
        THEN [id |-> EmptyLDID, err |-> BitFieldError(bf), calls |-> made]
        ELSE [id |-> [bf |-> bf], err |-> NoError, calls |-> made]

\* NewWithGenerator(g).  g.ts is the result of GenerateUnixTimestampMS and
\* g.rand[w] that of GenerateRandomBits(rand.Reader, w), a value and an
\* error.  The result is the returned pair and the generator calls made.
NewWithGenerator(g) ==
    LET timestamp == g.ts
        version   == U64Of(7)
        a         == g.rand[randASize]
        variant   == U64Of(2)
        b         == g.rand[randBSize]
        bf        == InsertFields(BitFieldNew(128), timestamp, version,
                                  a.val, variant, b.val)
    IN  IF a.err # NoError
        THEN [id |-> EmptyLDID, err |-> a.err,
              calls |-> <<"GenerateUnixTimestampMS", "GenerateRandomBits(12)">>]
        ELSE IF b.err # NoError
        THEN [id |-> EmptyLDID, err |-> b.err,
              calls |-> <<"GenerateUnixTimestampMS", "GenerateRandomBits(12)",
                          "GenerateRandomBits(62)">>]
        ELSE IF BitFieldError(bf) # NoError
        THEN [id |-> EmptyLDID, err |-> BitFieldError(bf),
              calls |-> <<"GenerateUnixTimestampMS", "GenerateRandomBits(12)",
                          "GenerateRandomBits(62)">>]
        ELSE [id |-> [bf |-> bf], err |-> NoError,
              calls |-> <<"GenerateUnixTimestampMS", "GenerateRandomBits(12)",
                          "GenerateRandomBits(62)">>]

Bytes(ldid) == BitFieldBytes(ldid.bf)

Timestamp(ldid) == ExtractUint64(ldid.bf, timestampOffset, timestampSize)

Version(ldid) == ExtractUint64(ldid.bf, versionOffset, versionSize)

RandA(ldid) == ExtractUint64(ldid.bf, randAOffset, randASize)

Variant(ldid) == ExtractUint64(ldid.bf, variantOffset, variantSize)

RandB(ldid) == ExtractUint64(ldid.bf, randBOffset, randBSize)

\* ------------------------------------------------------------------ strings

LowerDigits ==
    <<"0", "1", "2", "3", "4", "5", "6", "7", "8", "9", "a", "b", "c", "d", "e", "f">>

UpperDigits ==
    <<"0", "1", "2", "3", "4", "5", "6", "7", "8", "9", "A", "B", "C", "D", "E", "F">>

\* HexByte writing a byte below 16 as one digit, as %x does for an integer.
HexByteNoPad(b) ==
    IF b < 16 THEN <<LowerDigits[b + 1]>>
    ELSE <<LowerDigits[(b \div 16) + 1], LowerDigits[(b % 16) + 1]>>

\* The two lowercase hex digits of one byte: what %x writes for it.
HexByte(b) == <<LowerDigits[(b \div 16) + 1], LowerDigits[(b % 16) + 1]>>

RECURSIVE HexEncode(_)
HexEncode(bytes) ==
    IF bytes = <<>> THEN <<>>
    ELSE HexByte(Head(bytes)) \o HexEncode(Tail(bytes))

\* Sprintf("%0<width>x", bytes): the hex digits of the bytes, padded on the
\* left up to width.
FmtHex(width, bytes) ==
    LET digits == HexEncode(bytes)
    IN  IF Len(digits) >= width THEN digits
        ELSE [i \in 1..(width - Len(digits)) |-> "0"] \o digits

\* id.String()
String(ldid) ==
    LET bytes == BitFieldBytes(ldid.bf)
    IN  FmtHex(8, SubSeq(bytes, 1, 4)) \o <<"-">> \o
        FmtHex(4, SubSeq(bytes, 5, 6)) \o <<"-">> \o
        FmtHex(4, SubSeq(bytes, 7, 8)) \o <<"-">> \o
        FmtHex(4, SubSeq(bytes, 9, 10)) \o <<"-">> \o
        FmtHex(12, SubSeq(bytes, 11, Len(bytes)))

\* strings.ReplaceAll(s, "-", "")
RECURSIVE RemoveHyphens(_)
RemoveHyphens(s) ==
    IF s = <<>> THEN <<>>
    ELSE IF Head(s) = "-" THEN RemoveHyphens(Tail(s))
    ELSE <<Head(s)>> \o RemoveHyphens(Tail(s))

\* encoding/hex's value of one character, 255 for a character that is no
\* hex digit.
HexVal(c) ==
    IF \E i \in 1..16 : LowerDigits[i] = c
    THEN (CHOOSE i \in 1..16 : LowerDigits[i] = c) - 1
    ELSE IF \E i \in 1..16 : UpperDigits[i] = c
    THEN (CHOOSE i \in 1..16 : UpperDigits[i] = c) - 1
    ELSE 255

\* hex.DecodeString(s): the bytes of the character pairs, an error for a
\* character that is no hex digit or for an odd length.
RECURSIVE DecodeString(_)
DecodeString(s) ==
    IF Len(s) = 0 THEN [bytes |-> <<>>, err |-> NoError]
    ELSE IF Len(s) = 1
    THEN [bytes |-> <<>>,
          err |-> IF HexVal(s[1]) > 15 THEN "invalid byte" ELSE "odd length hex string"]
    ELSE IF HexVal(s[1]) > 15 \/ HexVal(s[2]) > 15
    THEN [bytes |-> <<>>, err |-> "invalid byte"]
    ELSE LET rest == DecodeString(SubSeq(s, 3, Len(s)))
         IN  [bytes |-> <<16 * HexVal(s[1]) + HexVal(s[2])>> \o rest.bytes,
              err |-> rest.err]

parseUUIDString(s) ==
    LET d == DecodeString(RemoveHyphens(s))
    IN  IF d.err # NoError THEN [bytes |-> <<>>, err |-> d.err]
        ELSE [bytes |-> d.bytes, err |-> NoError]

\* FromString(s): the container is declared with len(bytes) as its width;
\* held is what a container holds whose FromBytes failed.
FromString(s, held) ==
    LET p == parseUUIDString(s)
    IN  IF p.err # NoError THEN [id |-> EmptyLDID, err |-> p.err]
        ELSE [id |-> [bf |-> FromBytes(p.bytes, Len(p.bytes), held)], err |-> NoError]

\* ------------------------------------------------------------------ big.Int

\* A big.Int >= 0 is its bits without leading zeros; zero is the empty
\* sequence.
RECURSIVE Normalize(_)
Normalize(x) ==
    IF x = <<>> THEN <<>>
    ELSE IF Head(x) = 0 THEN Normalize(Tail(x))
    ELSE x

\* x - 1 for x >= 1, before normalisation.
RECURSIVE Decrement(_)
Decrement(x) ==
    IF x[Len(x)] = 1 THEN [x EXCEPT ![Len(x)] = 0]
    ELSE Decrement(SubSeq(x, 1, Len(x) - 1)) \o <<1>>

BigSub1(x) == Normalize(Decrement(x))

\* max.Exp(big.NewInt(2), big.NewInt(w), nil): 2^w, and 1 when w <= 0.
Exp2(w) == IF w <= 0 THEN <<1>> ELSE <<1>> \o Zeros(w)

\* x.Cmp(y) < 0
BigLess(x, y) ==
    \/ Len(x) < Len(y)
    \/ /\ Len(x) = Len(y)
       /\ \E i \in 1..Len(x) :
            /\ x[i] < y[i]
            /\ \A j \in 1..(i - 1) : x[j] = y[j]

\* x.IsUint64()
IsUint64(x) == Len(x) <= 64

\* rb.Uint64()
Uint64(x) ==
    IF Len(x) >= 64 THEN SubSeq(x, Len(x) - 63, Len(x))
    ELSE Zeros(64 - Len(x)) \o x

\* The upper bound handed to rand.Int for a width of w bits: 2^w - 1.
MaxFor(w) == BigSub1(Exp2(w))

\* ------------------------------------------------------------------ rand.Int

\* The bit length of max - 1: the width of the candidates rand.Int reads.
BitLen(m) == Len(BigSub1(m))

\* The number of bytes rand.Int reads per candidate.
ReadSize(m) == (BitLen(m) + 7) \div 8

\* The candidate rand.Int builds from the bytes of one read: the first byte
\* keeps its low b bits, b the bits of the top byte of max - 1.
Candidate(m, bytes) ==
    LET b    == IF BitLen(m) % 8 = 0 THEN 8 ELSE BitLen(m) % 8
        bits == BytesToBits(bytes)
    IN  Normalize([i \in 1..Len(bits) |-> IF i <= 8 - b THEN 0 ELSE bits[i]])

\* rand.Int keeps a candidate that is below max and draws again otherwise.
Accepted(m, c) == BigLess(c, m)

\* The width check refusing a width of 64 as well.
TooLargeStrict(m) == Len(m) >= 64

\* The width check of GenerateRandomBits: max does not fit a uint64.
TooLarge(m) == ~IsUint64(m)

\* The entry of rand.Int(reader, max): it panics when max <= 0, returns 0
\* without reading when max - 1 = 0, and reads the reader otherwise.
RandIntEnter(m) ==
    IF m = <<>>
    THEN [pc |-> "panicked", r |-> Zeros(64), err |-> NoError]
    ELSE IF BitLen(m) = 0
    THEN [pc |-> "returned", r |-> Zeros(64), err |-> NoError]
    ELSE [pc |-> "reading", r |-> Zeros(64), err |-> NoError]

\* The deferred function of GenerateRandomBits: a panic becomes the error
\* the call returns.
Recover(res) ==
    IF res.pc = "panicked"
    THEN [pc |-> "returned", r |-> Zeros(64),
          err |-> "crypto/rand: argument to Int is <= 0"]
    ELSE res

\* GenerateRandomBits(reader, w) up to its first read of the reader.
EnterGenerateRandomBits(w) ==
    LET m == MaxFor(w)
    IN  IF TooLarge(m)
        THEN [pc |-> "returned", r |-> Zeros(64),
              err |-> "failed to generate random bits: n is too large to fit in a uint64"]
        ELSE Recover(RandIntEnter(m))

\* A failed read answered with a zero value and no error.
ReadFailureSwallowed ==
    [pc |-> "returned", r |-> Zeros(64), err |-> NoError]

\* What GenerateRandomBits returns when a read of the reader fails.
ReadFailure ==
    [pc |-> "returned", r |-> Zeros(64),
     err |-> "failed to generate random bits: read error"]

\* One round of rand.Int's loop on the bytes of a successful read.
ReadSuccess(m, bytes) ==
    LET c == Candidate(m, bytes)
    IN  IF Accepted(m, c)
        THEN [pc |-> "returned", r |-> Uint64(c), err |-> NoError]
        ELSE [pc |-> "reading", r |-> Zeros(64), err |-> NoError]

\* ------------------------------------------------------------------ inputs

\* 0b11110000 repeated: the random value of the repository's tests.
F0Pattern == [i \in 1..64 |-> IF (i - 1) % 8 < 4 THEN 1 ELSE 0]

\* The bits set alone in a generator value: the two ends of each field and
\* the first bit above each field's width.
BitInputs == {0, 11, 12, 47, 48, 61, 62, 63}

U64Inputs == {Zeros(64), Ones(64), F0Pattern} \cup {U64Bit(p) : p \in BitInputs}

\* What a generator's GenerateRandomBits hands back: a value, or an error
\* beside any value.
Outcomes ==
    {[val |-> v, err |-> NoError] : v \in U64Inputs}
    \cup {[val |-> v, err |-> "mock error"] : v \in {Zeros(64), Ones(64)}}

Generators == [ts : U64Inputs, rand : [{randASize, randBSize} -> Outcomes]]

NoGenerator == "none"

BaseStrings ==
    { <<"0", "1", "9", "0", "a", "5", "b", "3", "-", "c", "7", "d", "2", "-",
        "7", "e", "4", "f", "-", "8", "a", "1", "b", "-",
        "2", "c", "3", "d", "4", "e", "5", "f", "6", "0", "7", "1">>,
      <<"0", "0", "0", "0", "0", "0", "0", "0", "-", "0", "0", "0", "0", "-",
        "0", "0", "0", "0", "-", "0", "0", "0", "0", "-",
        "0", "0", "0", "0", "0", "0", "0", "0", "0", "0", "0", "0">> }

ToUpper(s) ==
    [i \in 1..Len(s) |->
       IF \E k \in 1..16 : LowerDigits[k] = s[i]
       THEN UpperDigits[CHOOSE k \in 1..16 : LowerDigits[k] = s[i]]
       ELSE s[i]]

\* The strings handed to FromString: canonical ones, in upper case, without
\* hyphens, cut short, lengthened, and with one character replaced.
StringInputs ==
    UNION { {s, ToUpper(s), RemoveHyphens(s), s \o <<"0">>, s \o <<"0", "0">>,
             s \o <<"-">>}
            \cup {SubSeq(s, 1, k) : k \in 0..Len(s)}
            \cup {[s EXCEPT ![i] = c] : i \in 1..Len(s), c \in {"g", "-"}}
            : s \in BaseStrings }

LowWidth == 2
MaxWidth == 66
MaxReads == 3

\* The widths asked of GenerateRandomBits.
Widths == (0 - LowWidth)..MaxWidth

\* The bytes of one read: any first byte, the others all alike.
FillBytes == {0, 165, 255}

ReadBytes(k) ==
    {[i \in 1..k |-> IF i = 1 THEN top ELSE fill] : top \in 0..255, fill \in FillBytes}

\* ------------------------------------------------------------------ machine

Init ==
    /\ pc = "idle"
    /\ gen = NoGenerator
    /\ calls = <<>>
    /\ id = EmptyLDID
    /\ err = NoError
    /\ str = <<>>
    /\ parsed = EmptyLDID
    /\ perr = NoError
    /\ n = 0
    /\ max = <<>>
    /\ reads = 0
    /\ readFailed = FALSE
    /\ cand = <<>>
    /\ r = Zeros(64)

\* ldid, err := NewWithGenerator(g)
CallNewWithGenerator ==
    /\ pc = "idle"
    /\ \E g \in Generators :
         LET res == NewWithGenerator(g)
         IN  /\ gen' = g
             /\ calls' = res.calls
             /\ id' = res.id
             /\ err' = res.err
    /\ pc' = "constructed"
    /\ UNCHANGED <<str, parsed, perr, n, max, reads, readFailed, cand, r>>

\* s := ldid.String() on a constructed LDID
CallString ==
    /\ pc = "constructed"
    /\ err = NoError
    /\ str' = String(id)
    /\ pc' = "rendered"
    /\ UNCHANGED <<gen, calls, id, err, parsed, perr, n, max, reads, readFailed, cand, r>>

\* FromString(ldid.String())
CallFromStringOfString ==
    /\ pc = "rendered"
    /\ \E held \in FailedContents :
         LET res == FromString(str, held)
         IN  /\ parsed' = res.id
             /\ perr' = res.err
    /\ pc' = "reparsed"
    /\ UNCHANGED <<gen, calls, id, err, str, n, max, reads, readFailed, cand, r>>

\* FromString(s) on a string of the caller
CallFromString ==
    /\ pc = "idle"
    /\ \E s \in StringInputs, held \in FailedContents :
         LET res == FromString(s, held)
         IN  /\ str' = s
             /\ parsed' = res.id
             /\ perr' = res.err
    /\ pc' = "parsed"
    /\ UNCHANGED <<gen, calls, id, err, n, max, reads, readFailed, cand, r>>

\* defaultGenerator.GenerateRandomBits(reader, w), up to the first read
CallGenerateRandomBits ==
    /\ pc = "idle"
    /\ \E w \in Widths :
         LET res == EnterGenerateRandomBits(w)
         IN  /\ n' = w
             /\ max' = MaxFor(w)
             /\ pc' = res.pc
             /\ r' = res.r
             /\ err' = res.err
    /\ UNCHANGED <<gen, calls, id, str, parsed, perr, reads, readFailed, cand>>

\* io.ReadFull fails inside rand.Int
ReadFails ==
    /\ pc = "reading"
    /\ reads < MaxReads
    /\ reads' = reads + 1
    /\ readFailed' = TRUE
    /\ pc' = ReadFailure.pc
    /\ r' = ReadFailure.r
    /\ err' = ReadFailure.err
    /\ UNCHANGED <<gen, calls, id, str, parsed, perr, n, max, cand>>

\* io.ReadFull fills the buffer inside rand.Int
ReadSucceeds ==
    /\ pc = "reading"
    /\ reads < MaxReads
    /\ \E bytes \in ReadBytes(ReadSize(max)) :
         LET res == ReadSuccess(max, bytes)
         IN  /\ cand' = Candidate(max, bytes)
             /\ pc' = res.pc
             /\ r' = res.r
             /\ err' = res.err
    /\ reads' = reads + 1
    /\ UNCHANGED <<gen, calls, id, str, parsed, perr, n, max, readFailed>>

Next ==
    \/ CallNewWithGenerator
    \/ CallString
    \/ CallFromStringOfString
    \/ CallFromString
    \/ CallGenerateRandomBits
    \/ ReadFails
    \/ ReadSucceeds

Spec == Init /\ [][Next]_vars

\* ------------------------------------------------------------------ claims

HexChars == {LowerDigits[i] : i \in 1..16} \cup {UpperDigits[i] : i \in 1..16}

LowerHexChars == {LowerDigits[i] : i \in 1..16}

HyphenPositions == {9, 14, 19, 24}

\* v mod 2^w as a uint64.
LowBits(v, w) == Zeros(64 - w) \o SubSeq(v, 64 - w + 1, 64)

\* The bits lo..hi of a byte sequence, bit 0 the most significant bit of
\* the first byte, right aligned in a uint64.
BitRange(bytes, lo, hi) ==
    Zeros(64 - (hi - lo + 1)) \o SubSeq(BytesToBits(bytes), lo + 1, hi + 1)

\* The position in the canonical string of the first digit of byte k.
DigitPos(k) ==
    2 * k - 1 + (IF k > 4 THEN 1 ELSE 0) + (IF k > 6 THEN 1 ELSE 0)
              + (IF k > 8 THEN 1 ELSE 0) + (IF k > 10 THEN 1 ELSE 0)

\* A string of 36 characters, hyphens at the four group ends, hex digits
\* elsewhere.
IsCanonical(s) ==
    /\ Len(s) = 36
    /\ \A i \in 1..36 : IF i \in HyphenPositions THEN s[i] = "-" ELSE s[i] \in HexChars

C2_FormatError ==
    pc = "parsed" =>
        (perr = NoError <=>
            /\ Len(RemoveHyphens(str)) = 32
            /\ \A i \in 1..32 : RemoveHyphens(str)[i] \in HexChars)

\* C3: when the generator's calls return t, a and b without error,
\* NewWithGenerator succeeds and Timestamp() = t mod 2^48,
\* RandA() = a mod 2^12 and RandB() = b mod 2^62.
C3_FieldsKeepLowBits ==
    (/\ pc \in {"constructed", "rendered", "reparsed"}
     /\ gen.rand[randASize].err = NoError
     /\ gen.rand[randBSize].err = NoError) =>
        /\ err = NoError
        /\ Timestamp(id) = [val |-> LowBits(gen.ts, 48), err |-> NoError]
        /\ RandA(id) = [val |-> LowBits(gen.rand[randASize].val, 12), err |-> NoError]
        /\ RandB(id) = [val |-> LowBits(gen.rand[randBSize].val, 62), err |-> NoError]

C3_Witness ==
    /\ pc = "constructed"
    /\ err = NoError
    /\ gen.ts = Ones(64)
    /\ gen.rand[randASize].val = F0Pattern
    /\ gen.rand[randBSize].val = U64Bit(62)
    /\ Timestamp(id).val = Zeros(16) \o Ones(48)
    /\ RandB(id).val = Zeros(64)

\* C4: every LDID that NewWithGenerator returned without error has
\* Version() = 7 and Variant() = 2, whatever the generator supplied.
C4_VersionVariant ==
    (pc \in {"constructed", "rendered", "reparsed"} /\ err = NoError) =>
        /\ Version(id) = [val |-> U64Of(7), err |-> NoError]
        /\ Variant(id) = [val |-> U64Of(2), err |-> NoError]

C4_Witness ==
    /\ pc = "constructed"
    /\ err = NoError
    /\ gen.ts = Ones(64)
    /\ gen.rand[randASize].val = Ones(64)
    /\ gen.rand[randBSize].val = Ones(64)
    /\ Version(id).val = U64Of(7)
    /\ Variant(id).val = U64Of(2)

\* C5: when GenerateRandomBits fails on the 12-bit or on the 62-bit draw,
\* NewWithGenerator returns an error and the empty LDID, which holds no
\* data of the failed construction.
C5_NoPartialId ==
    (/\ pc = "constructed"
     /\ \/ gen.rand[randASize].err # NoError
        \/ gen.rand[randBSize].err # NoError) =>
        /\ err # NoError
        /\ id = EmptyLDID

C5_Witness ==
    /\ pc = "constructed"
    /\ gen.ts = Ones(64)
    /\ gen.rand[randASize] = [val |-> Ones(64), err |-> NoError]
    /\ gen.rand[randBSize] = [val |-> Ones(64), err |-> "mock error"]
    /\ err = "mock error"
    /\ id = EmptyLDID

\* C6: with a reader whose reads succeed, GenerateRandomBits(reader, n)
\* never panics and returns an error exactly when n <= 0 or n > 64.
C6_WidthErrors ==
    /\ pc # "panicked"
    /\ (pc = "returned" /\ ~readFailed) => (err # NoError <=> (n <= 0 \/ n > 64))

C6_Witness ==
    /\ pc = "returned"
    /\ n = 64
    /\ reads = 1
    /\ ~readFailed
    /\ err = NoError
    /\ r[1] = 1

\* C7: for every width n in 1..64 every result is below 2^n, and every
\* integer of [0, 2^n), 2^n - 1 included, is a possible result: a value
\* below 2^n that the reader delivers is the value returned.
C7_WholeRange ==
    (n \in 1..64 /\ ~readFailed) =>
        /\ (pc = "returned" /\ err = NoError) => r = LowBits(r, n)
        /\ reads > 0 => (pc = "returned" /\ err = NoError /\ r = Uint64(cand))

\* C8: for every LDID that NewWithGenerator returned without error,
\* String() is 36 characters, hyphens at the group ends and lowercase hex
\* digits elsewhere, and the digits are the two-digit encodings of the 16
\* bytes of Bytes(), in order.
C8_CanonicalString ==
    pc \in {"rendered", "reparsed"} =>
        /\ Len(str) = 36
        /\ \A i \in 1..36 :
             IF i \in HyphenPositions THEN str[i] = "-" ELSE str[i] \in LowerHexChars
        /\ \A k \in 1..16 :
             /\ str[DigitPos(k)] = LowerDigits[(Bytes(id)[k] \div 16) + 1]
             /\ str[DigitPos(k) + 1] = LowerDigits[(Bytes(id)[k] % 16) + 1]

C8_Witness ==
    /\ pc = "rendered"
    /\ Bytes(id)[1] = 0
    /\ Bytes(id)[6] = 1
    /\ Bytes(id)[16] = 240
    /\ str[DigitPos(6)] = "0"
    /\ str[DigitPos(6) + 1] = "1"

\* C9: whenever a read of the reader fails, GenerateRandomBits returns a
\* non-nil error: the failure is not swallowed and no further read is made.
C9_ReadFailurePropagates ==
    readFailed => (pc = "returned" /\ err # NoError)

C9_Witness ==
    /\ readFailed
    /\ pc = "returned"
    /\ reads = 2
    /\ n = 64

\* C10: every accessor returns without error on an LDID returned without
\* error by NewWithGenerator or by FromString of a canonical string, and on
\* the latter returns the value of its bit range of the 16 decoded bytes.
C10_AccessorsSucceed ==
    /\ (pc = "constructed" /\ err = NoError) =>
          \A f \in {Timestamp(id), Version(id), RandA(id), Variant(id), RandB(id)} :
             f.err = NoError
    /\ (pc = "parsed" /\ IsCanonical(str)) =>
          /\ perr = NoError
          /\ \A f \in {Timestamp(parsed), Version(parsed), RandA(parsed),
                        Variant(parsed), RandB(parsed)} : f.err = NoError
          /\ Len(Bytes(parsed)) = 16
          /\ Timestamp(parsed).val = BitRange(Bytes(parsed), 0, 47)
          /\ Version(parsed).val = BitRange(Bytes(parsed), 48, 51)
          /\ RandA(parsed).val = BitRange(Bytes(parsed), 52, 63)
          /\ Variant(parsed).val = BitRange(Bytes(parsed), 64, 65)
          /\ RandB(parsed).val = BitRange(Bytes(parsed), 66, 127)

\* C11: every NewWithGenerator call invokes the generator in the order
\* GenerateUnixTimestampMS, GenerateRandomBits(12), GenerateRandomBits(62),
\* each at most once: a successful construction makes exactly these three
\* calls, and when the 12-bit draw fails the 62-bit draw is never requested.
C11_CallOrder ==
    pc \in {"constructed", "rendered", "reparsed"} =>
        LET order == <<"GenerateUnixTimestampMS", "GenerateRandomBits(12)",
                       "GenerateRandomBits(62)">>
        IN  /\ Len(calls) \in 2..3
            /\ calls = SubSeq(order, 1, Len(calls))
            /\ err = NoError => calls = order
            /\ gen.rand[randASize].err # NoError =>
                 (calls = SubSeq(order, 1, 2) /\ err # NoError)
            /\ gen.rand[randASize].err = NoError => calls = order

C11_Witness ==
    /\ pc = "constructed"
    /\ gen.rand[randASize].err # NoError
    /\ gen.rand[randBSize].err = NoError
    /\ calls = <<"GenerateUnixTimestampMS", "GenerateRandomBits(12)">>
    /\ err = "mock error"

====
